---- MODULE Spec2Model ----
(***************************************************************************)
(* Model of create_csv_from_response (src/app.py), the text-to-CSV         *)
(* extraction heuristic, and of the guard in process_with_bedrock that     *)
(* decides whether the download button is shown.                           *)
(*                                                                         *)
(* Text is a sequence of characters, so that strip, split, startswith and  *)
(* the "in" test are computed character by character.                      *)
(***************************************************************************)
EXTENDS Integers, Sequences, FiniteSets, TLC

\* ------------------------------------------------------------------ bounds
\* Largest number of lines of a reply text.
MaxLines == 3

\* ------------------------------------------------------------- characters
NL == "\n"
\* The backtick character (a string of TLA+ cannot hold it, so it is named).
BT == "backtick"
Comma == ","
Pipe == <<"|">>
Fence == <<BT, BT, BT>>
CsvFence == <<BT, BT, BT, "c", "s", "v">>

\* The characters str.strip() removes (the ASCII ones that occur in replies).
Whitespace == {" ", "\t", "\r", "\n"}

Char == {" ", "\t", "\r", "\n", ",", "|", BT, "a", "b", "c", "s", "v", "p", "y", "x"}

\* None of Python, a value that is not a text.
None == <<"None">>

\* ------------------------------------------------------- string primitives
\* str.startswith
startswith(s, prefix) ==
    /\ Len(s) >= Len(prefix)
    /\ SubSeq(s, 1, Len(prefix)) = prefix

\* the test  c in s  for a one-character c
Contains(c, s) == \E k \in 1..Len(s) : s[k] = c

RECURSIVE lstrip(_)
lstrip(s) ==
    IF s # <<>> /\ Head(s) \in Whitespace THEN lstrip(Tail(s)) ELSE s

RECURSIVE rstrip(_)
rstrip(s) ==
    IF s # <<>> /\ s[Len(s)] \in Whitespace
    THEN rstrip(SubSeq(s, 1, Len(s) - 1))
    ELSE s

\* str.strip()
strip(s) == rstrip(lstrip(s))

\* str.split(sep) for a one-character separator: the empty text gives one
\* empty piece, and n separators give n + 1 pieces.
RECURSIVE split(_, _)
split(s, sep) ==
    IF Contains(sep, s)
    THEN LET k == CHOOSE n \in 1..Len(s) :
                      s[n] = sep /\ \A j \in 1..(n - 1) : s[j] # sep
         IN  <<SubSeq(s, 1, k - 1)>> \o split(SubSeq(s, k + 1, Len(s)), sep)
    ELSE <<s>>

\* ------------------------------------------------------------ reply texts
\* The line texts a reply is built from: blank, prose, CSV rows (bare and
\* padded with blanks), a markdown table row, and fence lines (bare, tagged
\* csv, tagged with another language, followed by text with a comma).
LineTexts ==
    { <<>>,
      <<"x">>,
      <<"a", ",", "b">>,
      <<" ", "a", ",", "b", " ">>,
      <<"|", "a", ",", "b">>,
      <<BT, BT, BT>>,
      <<BT, BT, BT, "c", "s", "v">>,
      <<BT, BT, BT, "p", "y">>,
      <<BT, BT, BT, "a", ",", "b">> }

\* The line texts ls joined by line breaks.
RECURSIVE JoinNL(_)
JoinNL(ls) ==
    IF Len(ls) = 0 THEN <<>>
    ELSE IF Len(ls) = 1 THEN ls[1]
    ELSE ls[1] \o <<NL>> \o JoinNL(Tail(ls))

\* The reply texts: one to MaxLines line texts joined by line breaks
\* (a single blank line is the empty reply).
ReplyTexts ==
    UNION { { JoinNL(ls) : ls \in [1..n -> LineTexts] } : n \in 1..MaxLines }

\* ------------------------------------------------------------ the for loop
\* Branch with the closing-fence test narrowed to a bare fence.
Branch_bareclose(line, flag) ==
    IF Contains(Comma, line) /\ ~startswith(line, Pipe) /\ ~startswith(line, Fence)
    THEN "csv"
    ELSE IF startswith(line, CsvFence) THEN "open"
    ELSE IF line = Fence /\ flag THEN "close"
    ELSE IF flag /\ line # <<>> THEN "inside"
    ELSE "discard"

\* Branch without the pipe test of the first condition.
Branch_nopipe(line, flag) ==
    IF Contains(Comma, line) /\ ~startswith(line, Fence)
    THEN "csv"
    ELSE IF startswith(line, CsvFence) THEN "open"
    ELSE IF startswith(line, Fence) /\ flag THEN "close"
    ELSE IF flag /\ line # <<>> THEN "inside"
    ELSE "discard"

\* Branch whose last condition does not test the flag.
Branch_ungated(line, flag) ==
    IF Contains(Comma, line) /\ ~startswith(line, Pipe) /\ ~startswith(line, Fence)
    THEN "csv"
    ELSE IF startswith(line, CsvFence) THEN "open"
    ELSE IF startswith(line, Fence) /\ flag THEN "close"
    ELSE IF line # <<>> THEN "inside"
    ELSE "discard"

\* The if/elif chain of the loop body: which branch a trimmed line takes
\* when the flag in_csv has the value flag.
Branch(line, flag) ==
    IF Contains(Comma, line) /\ ~startswith(line, Pipe) /\ ~startswith(line, Fence)
    THEN "csv"
    ELSE IF startswith(line, CsvFence) THEN "open"
    ELSE IF startswith(line, Fence) /\ flag THEN "close"
    ELSE IF flag /\ line # <<>> THEN "inside"
    ELSE "discard"

\* LoopBody without the trimming of the line.
LoopBody_nostrip(st, raw) ==
    LET line == raw
        b == Branch(line, st.in_csv)
    IN  [ in_csv    |-> CASE b = "csv" -> TRUE
                          [] b = "open" -> TRUE
                          [] b = "close" -> FALSE
                          [] OTHER -> st.in_csv,
          csv_lines |-> IF b \in {"csv", "inside"}
                        THEN Append(st.csv_lines, line)
                        ELSE st.csv_lines ]

\* LoopBody that collects a line only when it is not collected already.
LoopBody_dedupe(st, raw) ==
    LET line == strip(raw)
        b == Branch(line, st.in_csv)
    IN  [ in_csv    |-> CASE b = "csv" -> TRUE
                          [] b = "open" -> TRUE
                          [] b = "close" -> FALSE
                          [] OTHER -> st.in_csv,
          csv_lines |-> IF b \in {"csv", "inside"}
                           /\ \A k \in 1..Len(st.csv_lines) : st.csv_lines[k] # line
                        THEN Append(st.csv_lines, line)
                        ELSE st.csv_lines ]

\* LoopBody that puts a collected line at the front of the list.
LoopBody_prepend(st, raw) ==
    LET line == strip(raw)
        b == Branch(line, st.in_csv)
    IN  [ in_csv    |-> CASE b = "csv" -> TRUE
                          [] b = "open" -> TRUE
                          [] b = "close" -> FALSE
                          [] OTHER -> st.in_csv,
          csv_lines |-> IF b \in {"csv", "inside"}
                        THEN <<line>> \o st.csv_lines
                        ELSE st.csv_lines ]

\* LoopBody that collects the fence line that clears the flag.
LoopBody_emitclose(st, raw) ==
    LET line == strip(raw)
        b == Branch(line, st.in_csv)
    IN  [ in_csv    |-> CASE b = "csv" -> TRUE
                          [] b = "open" -> TRUE
                          [] b = "close" -> FALSE
                          [] OTHER -> st.in_csv,
          csv_lines |-> IF b \in {"csv", "inside", "close"}
                        THEN Append(st.csv_lines, line)
                        ELSE st.csv_lines ]

\* One iteration of the loop on the raw line raw, from the loop state st =
\* [in_csv, csv_lines]; the result is the loop state after the iteration.
LoopBody(st, raw) ==
    LET line == strip(raw)
        b == Branch(line, st.in_csv)
    IN  [ in_csv    |-> CASE b = "csv" -> TRUE
                          [] b = "open" -> TRUE
                          [] b = "close" -> FALSE
                          [] OTHER -> st.in_csv,
          csv_lines |-> IF b \in {"csv", "inside"}
                        THEN Append(st.csv_lines, line)
                        ELSE st.csv_lines ]

\* What the function writes to the StringIO buffer after the loop: every
\* collected line followed by a line break, or the reply itself when no
\* line was collected.
RECURSIVE WriteLines(_)
WriteLines(ls) ==
    IF ls = <<>> THEN <<>> ELSE Head(ls) \o <<NL>> \o WriteLines(Tail(ls))

\* WriteOutput that falls back to the stripped reply.
WriteOutput_stripped(ls, text) ==
    IF ls # <<>> THEN WriteLines(ls) ELSE strip(text)

\* WriteOutput without the fallback branch.
WriteOutput_nofallback(ls, text) ==
    IF ls # <<>> THEN WriteLines(ls) ELSE <<>>

WriteOutput(ls, text) ==
    IF ls # <<>> THEN WriteLines(ls) ELSE text

\* output.getvalue()
getvalue(buf) == buf

\* The function as a whole, for applying it to a text in one step.
RECURSIVE RunLoop(_, _)
RunLoop(st, raws) ==
    IF raws = <<>> THEN st ELSE RunLoop(LoopBody(st, Head(raws)), Tail(raws))

create_csv_from_response(text) ==
    LET st == RunLoop([in_csv |-> FALSE, csv_lines |-> <<>>],
                      split(strip(text), NL))
    IN  getvalue(WriteOutput(st.csv_lines, text))

\* ------------------------------------------------------------------- state
VARIABLES
    response_text,  \* the argument of create_csv_from_response
    lines,          \* response_text.strip().split('\n')
    i,              \* index in lines of the next line of the for loop
    in_csv,         \* the flag in_csv
    csv_lines,      \* the list csv_lines
    output,         \* the contents of the StringIO buffer
    retval,         \* csv_file in the caller: the returned value
    download,       \* whether the download button has been shown
    pc              \* position in the code

vars == <<response_text, lines, i, in_csv, csv_lines, output, retval, download, pc>>

Init ==
    /\ response_text \in ReplyTexts
    /\ lines = <<>>
    /\ i = 1
    /\ in_csv = FALSE
    /\ csv_lines = <<>>
    /\ output = <<>>
    /\ retval = None
    /\ download = FALSE
    /\ pc = "call"

\* Lines 178-185: the buffer, the lines of the stripped reply, the empty list
\* and the cleared flag.
Call ==
    /\ pc = "call"
    /\ output' = <<>>
    /\ lines' = split(strip(response_text), NL)
    /\ csv_lines' = <<>>
    /\ in_csv' = FALSE
    /\ i' = 1
    /\ pc' = "loop"
    /\ UNCHANGED <<response_text, retval, download>>

\* Lines 186-199: one iteration of the for loop.
ForLine ==
    /\ pc = "loop"
    /\ i <= Len(lines)
    /\ LET st == LoopBody([in_csv |-> in_csv, csv_lines |-> csv_lines], lines[i])
       IN  /\ in_csv' = st.in_csv
           /\ csv_lines' = st.csv_lines
    /\ i' = i + 1
    /\ UNCHANGED <<response_text, lines, output, retval, download, pc>>

\* Lines 201-207: the loop is over; the buffer is written.
Write ==
    /\ pc = "loop"
    /\ i > Len(lines)
    /\ output' = output \o WriteOutput(csv_lines, response_text)
    /\ pc' = "written"
    /\ UNCHANGED <<response_text, lines, i, in_csv, csv_lines, retval, download>>

\* Return that gives None for an empty buffer.
Return_none ==
    /\ pc = "written"
    /\ retval' = IF output = <<>> THEN None ELSE getvalue(output)
    /\ pc' = "returned"
    /\ UNCHANGED <<response_text, lines, i, in_csv, csv_lines, output, download>>

\* Lines 210-211 and 143: the buffer's value is returned to the caller.
Return ==
    /\ pc = "written"
    /\ retval' = getvalue(output)
    /\ pc' = "returned"
    /\ UNCHANGED <<response_text, lines, i, in_csv, csv_lines, output, download>>

\* Lines 144-153: a truthy csv_file shows the download button.
ShowDownload ==
    /\ pc = "returned"
    /\ retval # None /\ retval # <<>>
    /\ download' = TRUE
    /\ pc' = "end"
    /\ UNCHANGED <<response_text, lines, i, in_csv, csv_lines, output, retval>>

\* Line 144: a falsy csv_file (None or the empty text) shows nothing.
SkipDownload ==
    /\ pc = "returned"
    /\ ~(retval # None /\ retval # <<>>)
    /\ pc' = "end"
    /\ UNCHANGED <<response_text, lines, i, in_csv, csv_lines, output, retval, download>>

Next ==
    \/ Call
    \/ ForLine
    \/ Write
    \/ Return
    \/ ShowDownload
    \/ SkipDownload

Spec == Init /\ [][Next]_vars

\* The stepwise run returns what the function computes in one step.
StepwiseAgrees ==
    pc \in {"returned", "end"} => retval = create_csv_from_response(response_text)


\* ---------------------------------------------- vocabulary of the properties
\* The function has returned.
Returned == pc \in {"returned", "end"}

\* The lines of the reply, split on line breaks, and the same lines trimmed.
InputLines == split(response_text, NL)
TrimmedInputLines == [k \in 1..Len(InputLines) |-> strip(InputLines[k])]

\* The lines of a result: its pieces between line breaks, without the empty
\* piece after a final line break.
OutputLines(s) ==
    IF s = <<>> THEN <<>>
    ELSE IF s[Len(s)] = NL THEN split(SubSeq(s, 1, Len(s) - 1), NL)
    ELSE split(s, NL)

\* a is b with some elements left out.
RECURSIVE IsSubseq(_, _)
IsSubseq(a, b) ==
    IF a = <<>> THEN TRUE
    ELSE IF b = <<>> THEN FALSE
    ELSE IF Head(a) = Head(b) THEN IsSubseq(Tail(a), Tail(b))
    ELSE IsSubseq(a, Tail(b))

\* The CSV-line rule: a comma, and neither a pipe nor a fence at the start.
IsCsvRow(l) ==
    Contains(Comma, l) /\ ~startswith(l, Pipe) /\ ~startswith(l, Fence)

\* The lines that set the flag and the lines that clear a set flag.
SetsFlag(l) == IsCsvRow(l) \/ startswith(l, CsvFence)
ClearsFlag(l) == startswith(l, Fence) /\ ~startswith(l, CsvFence)

\* Whether line k of the trimmed lines ls is processed inside a block: some
\* earlier line set the flag and no line between the two cleared it.
InsideBefore(ls, k) ==
    \E j \in 1..(k - 1) :
        /\ SetsFlag(ls[j])
        /\ \A m \in (j + 1)..(k - 1) : ~ClearsFlag(ls[m])

\* The trimmed line the loop processes next.
CurLine == strip(lines[i])
InLoop == pc = "loop" /\ i <= Len(lines)
ProcessedLines == [k \in 1..Len(lines) |-> strip(lines[k])]


\* ------------------------------------------------------------------ claims

\* C1. Identity fallback: when no line was collected, the function returns
\* the reply itself, character for character, with its leading and trailing
\* whitespace and with no line break added.
C1_IdentityFallback ==
    (Returned /\ csv_lines = <<>>) => retval = response_text

\* A reply with whitespace around it and no collected line has been returned.
C1_Witness ==
    /\ Returned
    /\ csv_lines = <<>>
    /\ response_text # <<>>
    /\ strip(response_text) # response_text
    /\ retval = response_text

\* C2 as stated: no line of the result starts with the fence token, for
\* every reply.
C2_Original ==
    Returned =>
        \A k \in 1..Len(OutputLines(retval)) :
            ~startswith(OutputLines(retval)[k], Fence)

\* C2, amended: when at least one line was collected, no line of the result
\* starts with the fence token.
C2_NoFenceWhenEmitted ==
    (Returned /\ csv_lines # <<>>) =>
        \A k \in 1..Len(OutputLines(retval)) :
            ~startswith(OutputLines(retval)[k], Fence)

\* A result with collected lines, from a reply with an opening csv fence and
\* a later fence line inside the block.
C2_Witness ==
    /\ Returned
    /\ csv_lines # <<>>
    /\ \E j, k \in 1..Len(TrimmedInputLines) :
          /\ j < k
          /\ startswith(TrimmedInputLines[j], CsvFence)
          /\ ClearsFlag(TrimmedInputLines[k])
          /\ InsideBefore(TrimmedInputLines, k)

\* C7. The function never fails: whenever it has returned, the returned value
\* is a text and not None, and before it returns nothing has been returned.
C7_NeverFails ==
    /\ Returned => (retval \in Seq(Char) /\ retval # None)
    /\ ~Returned => retval = None
    /\ pc \in {"call", "loop", "written", "returned", "end"}

\* The empty reply has been processed and a text returned.
C7_Witness ==
    /\ Returned
    /\ response_text = <<>>
    /\ retval \in Seq(Char)

\* C8 as stated: the returned text is never empty, so the download button is
\* always shown.
C8_Original ==
    /\ Returned => retval # <<>>
    /\ pc = "end" => download

\* C8, amended: the returned text is empty exactly when the reply is empty,
\* so the download button is shown exactly for the non-empty replies.
C8_NonEmptyForNonEmptyReply ==
    /\ Returned => (retval = <<>> <=> response_text = <<>>)
    /\ pc = "end" => (download <=> response_text # <<>>)

\* The fallback has returned a non-empty reply and the button is shown.
C8_Witness ==
    /\ pc = "end"
    /\ download
    /\ csv_lines = <<>>
    /\ response_text # <<>>


\* The first collected line fails the CSV-line rule and a later collected
\* line satisfies it.
StrayLineFirst ==
    /\ csv_lines # <<>>
    /\ ~IsCsvRow(csv_lines[1])
    /\ \E k \in 2..Len(csv_lines) : IsCsvRow(csv_lines[k])

\* C3 as stated: applying the function to its own result returns that result,
\* for every reply.
C3_Original ==
    Returned => create_csv_from_response(retval) = retval

\* C3, amended: applying the function to its own result returns that result
\* except when the first collected line fails the CSV-line rule and a later
\* collected line satisfies it; so it does whenever every collected line
\* satisfies the CSV-line rule, and whenever no line was collected.
C3_IdempotentUnlessStrayLineFirst ==
    Returned =>
        (create_csv_from_response(retval) = retval <=> ~StrayLineFirst)

\* A result of several CSV rows, collected from a reply with other lines,
\* that the function returns unchanged.
C3_Witness ==
    /\ Returned
    /\ Len(csv_lines) >= 2
    /\ \A k \in 1..Len(csv_lines) : IsCsvRow(csv_lines[k])
    /\ retval # response_text
    /\ create_csv_from_response(retval) = retval

\* C4 as stated: every line of the reply that satisfies the CSV-line rule is
\* a line of the result as it stands in the reply, once per occurrence and in
\* the same order.
C4_Original ==
    Returned => IsSubseq(SelectSeq(InputLines, IsCsvRow), OutputLines(retval))

\* C4, amended: every trimmed line of the reply that satisfies the CSV-line
\* rule is, as trimmed, a line of the result, once per occurrence and in the
\* same order.
C4_CsvRowsKept ==
    Returned =>
        IsSubseq(SelectSeq(TrimmedInputLines, IsCsvRow), OutputLines(retval))

\* A reply with two CSV rows, one of them padded with whitespace, and a line
\* that is not a CSV row.
C4_Witness ==
    /\ Returned
    /\ Len(SelectSeq(TrimmedInputLines, IsCsvRow)) >= 2
    /\ \E k \in 1..Len(InputLines) :
          IsCsvRow(TrimmedInputLines[k]) /\ InputLines[k] # TrimmedInputLines[k]
    /\ \E k \in 1..Len(InputLines) : ~IsCsvRow(TrimmedInputLines[k])

\* Line k of the trimmed lines ls starts with a pipe and is processed while
\* the flag is false.
PipeOutside(ls, k) == startswith(ls[k], Pipe) /\ ~InsideBefore(ls, k)

\* The trimmed lines ls from line k on, without the pipe lines processed
\* while the flag is false.
RECURSIVE WithoutPipesOutside(_, _)
WithoutPipesOutside(ls, k) ==
    IF k > Len(ls) THEN <<>>
    ELSE (IF PipeOutside(ls, k) THEN <<>> ELSE <<ls[k]>>)
         \o WithoutPipesOutside(ls, k + 1)

\* C5 as stated: a line that starts with a pipe and is processed while the
\* flag is false is never a line of the result.
C5_Original ==
    Returned =>
        \A k \in 1..Len(TrimmedInputLines) :
            PipeOutside(TrimmedInputLines, k) =>
                \A n \in 1..Len(OutputLines(retval)) :
                    OutputLines(retval)[n] # TrimmedInputLines[k]

\* C5, amended: when at least one line was collected, a line that starts
\* with a pipe and is processed while the flag is false contributes no line
\* to the result: the lines of the result are taken, in order, from the
\* other trimmed lines of the reply.
C5_PipeOutsideNotEmitted ==
    (Returned /\ csv_lines # <<>>) =>
        IsSubseq(OutputLines(retval), WithoutPipesOutside(TrimmedInputLines, 1))

\* A result with collected lines, from a reply with a pipe line processed
\* while the flag is false.
C5_Witness ==
    /\ Returned
    /\ csv_lines # <<>>
    /\ \E k \in 1..Len(TrimmedInputLines) : PipeOutside(TrimmedInputLines, k)

\* C6. Order, no duplication, no truncation: when at least one line was
\* collected, the lines of the result are the trimmed lines of the reply with
\* some of them left out.
C6_OutputIsSubsequence ==
    (Returned /\ csv_lines # <<>>) =>
        IsSubseq(OutputLines(retval), TrimmedInputLines)

\* A result of two lines from a reply of three lines one of which is padded
\* with whitespace.
C6_Witness ==
    /\ Returned
    /\ Len(OutputLines(retval)) = 2
    /\ Len(InputLines) = 3
    /\ \E k \in 1..Len(InputLines) :
          /\ InputLines[k] # TrimmedInputLines[k]
          /\ \E n \in 1..2 : OutputLines(retval)[n] = TrimmedInputLines[k]


\* C9 as stated: the flag goes from true to false only in a step that
\* processes a bare fence line, the fence token and nothing else, and that
\* step collects nothing.
C9_Original ==
    [][(in_csv /\ ~in_csv') =>
          (InLoop /\ CurLine = Fence /\ csv_lines' = csv_lines)]_vars

\* C9, amended: the flag goes from true to false only in a step that
\* processes a line that starts with the fence token and not with the csv
\* fence, be it a bare fence or a fence followed by other text such as
\* another language tag; that step collects nothing.
C9_ClearedOnlyByFenceLine ==
    [][(in_csv /\ ~in_csv') =>
          (/\ InLoop
           /\ startswith(CurLine, Fence)
           /\ ~startswith(CurLine, CsvFence)
           /\ csv_lines' = csv_lines)]_vars

\* The step before this state processed a fence line with a language tag
\* inside a block and cleared the flag, the lines collected until then kept.
C9_Witness ==
    /\ pc = "loop"
    /\ i > 1
    /\ ~in_csv
    /\ csv_lines # <<>>
    /\ ProcessedLines[i - 1] # Fence
    /\ startswith(ProcessedLines[i - 1], Fence)
    /\ InsideBefore(ProcessedLines, i - 1)

\* The processed line is not blank, has no comma and does not start with the
\* fence token.
PlainLine(l) == l # <<>> /\ ~Contains(Comma, l) /\ ~startswith(l, Fence)

\* C10. Flag-gated emission: a step that processes a non-blank line with no
\* comma and no fence at its start collects the line if the flag is true and
\* collects nothing if it is false; a step that processes a blank line
\* collects nothing; and the flag is true exactly when, among the lines
\* processed so far, some line set it (a CSV line or a csv fence) and no
\* later line cleared it.
C10_FlagGatedEmission ==
    /\ [](pc = "loop" => (in_csv <=> InsideBefore(ProcessedLines, i)))
    /\ [](\A k \in 1..Len(csv_lines) : csv_lines[k] # <<>>)
    /\ [][(InLoop /\ PlainLine(CurLine)) =>
             (/\ in_csv => csv_lines' = Append(csv_lines, CurLine)
              /\ ~in_csv => csv_lines' = csv_lines)]_vars
    /\ [][(InLoop /\ CurLine = <<>>) => csv_lines' = csv_lines]_vars

\* The same comma-free line was discarded before the first CSV line and
\* collected after it.
C10_Witness ==
    /\ pc = "loop"
    /\ i = 4
    /\ PlainLine(ProcessedLines[1])
    /\ IsCsvRow(ProcessedLines[2])
    /\ ProcessedLines[3] = ProcessedLines[1]
    /\ csv_lines = <<ProcessedLines[2], ProcessedLines[3]>>

====
